---------------------------- MODULE Spec2Model ----------------------------
(***************************************************************************)
(* A model of the product catalogue of django-ecommerce:                  *)
(*   - products/models.py: Product (slug assigned on save, cached         *)
(*     average in `ratings`) and Rating (save recomputes the average);    *)
(*   - products/management/commands/import_products.py: the CSV importer. *)
(*                                                                         *)
(* Text is a sequence of one-character strings, so that trimming,         *)
(* slugify and the parsing of prices and stock are computed and not       *)
(* assumed.  A Decimal is [coef, places], the value coef / 10^places.     *)
(* A float average is a reduced fraction <<numerator, denominator>>.      *)
(***************************************************************************)
EXTENDS Integers, Sequences, FiniteSets, TLC

(***************************************************************************)
(* Bounds of the model.                                                    *)
(***************************************************************************)
\* longest CSV (data rows) fed to the importer
MaxRows == 2
\* invocations of the command on the same CSV (a run and its re-runs)
MaxRuns == 2
\* users who rate
NumUsers == 3
\* Rating.save calls made one after the other
MaxSaves == 4

(***************************************************************************)
(* Text.                                                                   *)
(***************************************************************************)
Whitespace == {" ", "\t"}
Digits == {"0", "1", "2", "3", "4", "5", "6", "7", "8", "9"}
Letters == {"a", "b", "d", "w", "x", "A", "B"}

\* Python's None, where the code can hold it (a NULL image_url)
None == <<"None">>

RECURSIVE Strip(_)
\* str.strip(): leading and trailing whitespace removed
Strip(s) ==
    IF s = <<>> THEN s
    ELSE IF Head(s) \in Whitespace THEN Strip(Tail(s))
    ELSE IF s[Len(s)] \in Whitespace THEN Strip(SubSeq(s, 1, Len(s) - 1))
    ELSE s

\* str.lower() of one character
Lower(c) == IF c = "A" THEN "a" ELSE IF c = "B" THEN "b" ELSE c

\* a character slugify keeps: [\w\s-]
SlugKept(c) == c \in Letters \cup Digits \cup Whitespace \cup {"_", "-"}

RECURSIVE Hyphenate(_, _)
\* re.sub(r"[-\s]+", "-", value): each run of hyphens and whitespace becomes one hyphen
Hyphenate(s, inRun) ==
    IF s = <<>> THEN <<>>
    ELSE IF Head(s) \in Whitespace \cup {"-"}
         THEN (IF inRun THEN <<>> ELSE <<"-">>) \o Hyphenate(Tail(s), TRUE)
         ELSE <<Head(s)>> \o Hyphenate(Tail(s), FALSE)

RECURSIVE StripHyphens(_)
\* .strip("-_")
StripHyphens(s) ==
    IF s = <<>> THEN s
    ELSE IF Head(s) \in {"-", "_"} THEN StripHyphens(Tail(s))
    ELSE IF s[Len(s)] \in {"-", "_"} THEN StripHyphens(SubSeq(s, 1, Len(s) - 1))
    ELSE s

\* django.utils.text.slugify(title), as Product.save calls it
slugify(value) ==
    LET lowered == [k \in 1..Len(value) |-> Lower(value[k])]
        kept == SelectSeq(lowered, SlugKept)
    IN  StripHyphens(Hyphenate(kept, FALSE))

(***************************************************************************)
(* Numbers.                                                                *)
(***************************************************************************)
RECURSIVE Pow10(_)
Pow10(n) == IF n = 0 THEN 1 ELSE 10 * Pow10(n - 1)

DigitVal(c) ==
    CASE c = "0" -> 0 [] c = "1" -> 1 [] c = "2" -> 2 [] c = "3" -> 3 [] c = "4" -> 4
      [] c = "5" -> 5 [] c = "6" -> 6 [] c = "7" -> 7 [] c = "8" -> 8 [] c = "9" -> 9

RECURSIVE DigitsVal(_)
DigitsVal(s) ==
    IF s = <<>> THEN 0 ELSE 10 * DigitsVal(SubSeq(s, 1, Len(s) - 1)) + DigitVal(s[Len(s)])

AllDigits(s) == \A k \in 1..Len(s) : s[k] \in Digits

\* Decimal(price_raw): [sign] digits [. digits]; anything else raises InvalidOperation
ParseDecimal(s) ==
    LET neg == s # <<>> /\ Head(s) = "-"
        body == IF s # <<>> /\ Head(s) \in {"-", "+"} THEN Tail(s) ELSE s
        dots == {k \in 1..Len(body) : body[k] = "."}
        dot == IF dots = {} THEN Len(body) + 1 ELSE CHOOSE k \in dots : \A j \in dots : k <= j
        whole == SubSeq(body, 1, dot - 1)
        frac == SubSeq(body, dot + 1, Len(body))
        ok == /\ Cardinality(dots) <= 1
              /\ AllDigits(whole) /\ AllDigits(frac)
              /\ Len(whole) + Len(frac) > 0
        mag == DigitsVal(whole \o frac)
    IN  IF ok THEN [ok |-> TRUE, coef |-> IF neg THEN 0 - mag ELSE mag, places |-> Len(frac)]
        ELSE [ok |-> FALSE, coef |-> 0, places |-> 0]

\* int(stock_raw): surrounding whitespace allowed, [sign] digits; anything else raises ValueError
ParseInt(s) ==
    LET t == Strip(s)
        neg == t # <<>> /\ Head(t) = "-"
        body == IF t # <<>> /\ Head(t) \in {"-", "+"} THEN Tail(t) ELSE t
        ok == body # <<>> /\ AllDigits(body)
    IN  IF ok THEN [ok |-> TRUE, val |-> IF neg THEN 0 - DigitsVal(body) ELSE DigitsVal(body)]
        ELSE [ok |-> FALSE, val |-> 0]

\* Decimal == Decimal: equality of the values, whatever the number of places
DecEq(a, b) == a.coef * Pow10(b.places) = b.coef * Pow10(a.places)

\* decimal_places of Product.price
DecimalPlaces == 2

\* Decimal("0.00")
ZeroPrice == [coef |-> 0, places |-> DecimalPlaces]

\* The value a DecimalField(decimal_places=2) column gives back for a Decimal
\* written to it: quantized to two places, ties to even.
Quantize(d) ==
    IF d.places <= DecimalPlaces
    THEN [coef |-> d.coef * Pow10(DecimalPlaces - d.places), places |-> DecimalPlaces]
    ELSE LET f == Pow10(d.places - DecimalPlaces)
             mag == IF d.coef < 0 THEN 0 - d.coef ELSE d.coef
             q == mag \div f
             r == mag % f
             up == IF 2 * r > f \/ (2 * r = f /\ q % 2 = 1) THEN q + 1 ELSE q
         IN  [coef |-> IF d.coef < 0 THEN 0 - up ELSE up, places |-> DecimalPlaces]

(***************************************************************************)
(* The Product table.  A row's id is its position in `products`; nothing   *)
(* in the code deletes a product.  created_at is never read and is left   *)
(* out.                                                                    *)
(***************************************************************************)
\* Product.stock: PositiveIntegerField(default=200)
DefaultStock == 200

\* Product.ratings: FloatField(default=0.0)
DefaultRatings == <<0, 1>>

ProductFields ==
    {"title", "description", "price", "stock", "country_of_origin", "province",
     "winery", "variety", "image_url", "ratings", "slug"}

\* The value a column gives back for the value written to it.
ToColumn(field, val) == IF field = "price" THEN Quantize(val) ELSE val

\* Product.save: the slug is derived from the title when the instance has none
WithSlug(inst) == [inst EXCEPT !.slug = IF inst.slug = <<>> THEN slugify(inst.title) ELSE inst.slug]

\* slug = SlugField(unique=True): no other row holds the slug
SlugFree(db, id, slug) == \A k \in 1..Len(db) : k # id => db[k].slug # slug

\* stock = PositiveIntegerField: the column refuses a negative number
StockAllowed(stock) == stock >= 0

\* The constraints of the Product table a written row must meet (IntegrityError otherwise)
RowAllowed(db, id, rec) == SlugFree(db, id, rec.slug) /\ StockAllowed(rec.stock)

\* ProductSave whose refused write stays in the table: the row's transaction is not rolled back
ProductSaveKept(db, id, inst) ==
    LET withSlug == WithSlug(inst)
        rec == [f \in ProductFields |-> ToColumn(f, withSlug[f])]
    IN  [ok |-> RowAllowed(db, id, rec),
         db |-> IF id = 0 THEN Append(db, rec) ELSE [db EXCEPT ![id] = rec]]

\* Product.save(): INSERT (id = 0) or UPDATE of every column of row `id`.
\* [ok, db]: ok is FALSE when the database raises IntegrityError, and db is then unchanged.
ProductSave(db, id, inst) ==
    LET withSlug == WithSlug(inst)
        rec == [f \in ProductFields |-> ToColumn(f, withSlug[f])]
    IN  IF ~RowAllowed(db, id, rec) THEN [ok |-> FALSE, db |-> db]
        ELSE IF id = 0 THEN [ok |-> TRUE, db |-> Append(db, rec)]
        ELSE [ok |-> TRUE, db |-> [db EXCEPT ![id] = rec]]

(***************************************************************************)
(* import_products: one row.                                               *)
(***************************************************************************)
RequiredColumns == {"country", "description", "price", "province", "title", "variety", "winery"}

\* (row.get(column) or ""): a column the row lacks reads as the empty string
Cell(row, column) == IF column \in DOMAIN row THEN row[column] ELSE <<>>

\* MissingKey with `and` for `or`
MissingKeyBoth(title, winery) == title = <<>> /\ winery = <<>>

\* if not title or not winery
MissingKey(title, winery) == title = <<>> \/ winery = <<>>

\* Decimal(price_raw) if price_raw != "" else Decimal("0.00"); 0.00 on InvalidOperation
PriceOf(price_raw) ==
    IF price_raw = <<>> THEN ZeroPrice
    ELSE IF ParseDecimal(price_raw).ok
         THEN [coef |-> ParseDecimal(price_raw).coef, places |-> ParseDecimal(price_raw).places]
         ELSE ZeroPrice

\* row.get("image_url") or row.get("image") or "", stripped
ImageOf(row) ==
    Strip(IF Cell(row, "image_url") # <<>> THEN Cell(row, "image_url") ELSE Cell(row, "image"))

\* the defaults dict: "stock" is a key only when the CSV's stock parsed
Defaults(row) ==
    LET base == [description |-> Strip(Cell(row, "description")),
                 price |-> PriceOf(Strip(Cell(row, "price"))),
                 country_of_origin |-> Strip(Cell(row, "country")),
                 province |-> Strip(Cell(row, "province")),
                 variety |-> Strip(Cell(row, "variety")),
                 winery |-> Strip(Cell(row, "winery")),
                 image_url |-> ImageOf(row)]
        stock_raw == Cell(row, "stock")
    IN  IF stock_raw # <<>> /\ ParseInt(stock_raw).ok
        THEN base @@ [stock |-> ParseInt(stock_raw).val]
        ELSE base

\* the warnings a row writes before the lookup
Warnings(row) ==
    (IF Strip(Cell(row, "price")) # <<>> /\ ~ParseDecimal(Strip(Cell(row, "price"))).ok
     THEN <<"invalid price">> ELSE <<>>)
    \o (IF Cell(row, "stock") # <<>> /\ ~ParseInt(Cell(row, "stock")).ok
        THEN <<"invalid stock">> ELSE <<>>)

\* Product.objects.filter(title=title, winery=winery).first(): the lowest id, 0 when none
First(db, title, winery) ==
    LET ids == {k \in 1..Len(db) : db[k].title = title /\ db[k].winery = winery}
    IN  IF ids = {} THEN 0 ELSE CHOOSE k \in ids : \A j \in ids : k <= j

\* (current is None and val) or (current != val)
Differs(field, current, val) ==
    CASE field = "price" -> ~DecEq(current, val)
      [] field = "stock" -> current # val
      [] OTHER -> (current = None /\ val # <<>>) \/ current # val

\* the fields of defaults the update loop sets on the instance
ChangedFields(product, defaults) ==
    {f \in DOMAIN defaults : Differs(f, product[f], defaults[f])}

\* the instance after the loop's setattr calls
Updated(product, defaults) ==
    [f \in ProductFields |->
        IF f \in ChangedFields(product, defaults) THEN defaults[f] ELSE product[f]]

\* Product(title=title, **defaults): the fields not given take the model's defaults
NewProduct(title, defaults) ==
    [f \in ProductFields |->
        IF f = "title" THEN title
        ELSE IF f \in DOMAIN defaults THEN defaults[f]
        ELSE IF f = "stock" THEN DefaultStock
        ELSE IF f = "ratings" THEN DefaultRatings
        ELSE <<>>]

\* Lines 57-97: the row normalized and the product looked up in `db`.
\* id = 0 and product = None when the key is missing or no product is found.
Lookup(db, row) ==
    LET title == Strip(Cell(row, "title"))
        winery == Strip(Cell(row, "winery"))
        id == IF MissingKey(title, winery) THEN 0 ELSE First(db, title, winery)
    IN  [missing |-> MissingKey(title, winery),
         title |-> title,
         defaults |-> Defaults(row),
         id |-> id,
         product |-> IF id = 0 THEN None ELSE db[id]]

\* Lines 99-127: what the row does with the looked-up product, on the database
\* as it is when the row writes.  kind is the line the row prints.
Write(db, lk, update) ==
    IF lk.missing THEN [kind |-> "missing", db |-> db]
    ELSE IF lk.id # 0
    THEN IF ~update THEN [kind |-> "exists", db |-> db]
         ELSE IF ChangedFields(lk.product, lk.defaults) = {}
              THEN [kind |-> "no changes", db |-> db]
              ELSE LET saved == ProductSave(db, lk.id, Updated(lk.product, lk.defaults))
                   IN  [kind |-> IF saved.ok THEN "updated" ELSE "error", db |-> saved.db]
    ELSE LET saved == ProductSave(db, 0, NewProduct(lk.title, lk.defaults))
         IN  [kind |-> IF saved.ok THEN "created" ELSE "error", db |-> saved.db]

\* the counter a row's line increments
Counts(kind, counter) ==
    CASE counter = "created" -> kind = "created"
      [] counter = "updated" -> kind = "updated"
      [] counter = "skipped" -> kind \in {"missing", "no changes", "exists"}
      [] counter = "error" -> kind = "error"

(***************************************************************************)
(* State.                                                                  *)
(***************************************************************************)
VARIABLES
    products,        \* the Product table
    user_ratings,    \* the Rating table: a set of [user, product, stars]
    csv_file,        \* options["csv_file"]: [exists, fieldnames, rows]
    update_existing, \* options["update"]
    pc,              \* where the command is: "start", "rows", "done", "failed"
    i,               \* rows read so far
    created, updated, skipped, errors,
    out,             \* the lines written to stdout by the rows: <<row number, line>>
    summary,         \* the final line's <<created, updated, skipped, errors>>, <<>> before it
    run,             \* which invocation of the command on csv_file this is
    start_products,  \* the Product table when this invocation started
    saved,           \* <<the Rating instance the last Rating.save persisted>>, <<>> before any
    saves,           \* Rating.save calls made
    ever_rated,      \* the products a rating has referred to
    importers,       \* concurrent importer runs, each at one row: [pc, row, update, lk, kind]
    savers           \* concurrent Rating.save calls: [pc, self, avg]

vars == <<products, user_ratings, csv_file, update_existing, pc, i, created, updated,
          skipped, errors, out, summary, run, start_products, saved, saves, ever_rated,
          importers, savers>>

rating_state == <<user_ratings, saved, saves, ever_rated>>

command == <<csv_file, update_existing, pc, i, created, updated, skipped, errors, out,
             summary, run, start_products>>

(***************************************************************************)
(* Inputs.                                                                 *)
(***************************************************************************)
OptionalColumns == {"image_url", "image", "stock"}

BaseRow ==
    [country |-> <<"A">>, description |-> <<"d">>, price |-> <<"1", ".", "5">>,
     province |-> <<"B">>, title |-> <<"a">>, variety |-> <<"x">>, winery |-> <<"w">>,
     image_url |-> <<>>, image |-> <<>>, stock |-> <<>>]

Rows ==
    { BaseRow,
      \* the same product described otherwise
      [BaseRow EXCEPT !.description = <<"x">>],
      \* the same row, padded
      [BaseRow EXCEPT !.title = <<" ", "a", " ">>, !.description = <<"d", " ">>],
      \* the same title from another winery
      [BaseRow EXCEPT !.winery = <<"b">>],
      \* another title with the same slug
      [BaseRow EXCEPT !.title = <<"A">>],
      \* no title after trimming, no winery
      [BaseRow EXCEPT !.title = <<" ">>],
      [BaseRow EXCEPT !.title = <<"b">>, !.winery = <<>>],
      \* a price of three places, a negative stock
      [BaseRow EXCEPT !.price = <<"1", ".", "9", "9", "9">>],
      [BaseRow EXCEPT !.stock = <<"-", "1">>],
      \* unparsable price and stock, the image in the "image" column
      [BaseRow EXCEPT !.title = <<"b">>, !.price = <<"x">>, !.stock = <<"x">>, !.image = <<"w">>],
      \* no price, a stock, an image_url
      [BaseRow EXCEPT !.title = <<"b">>, !.price = <<>>, !.stock = <<"5">>, !.image_url = <<"x">>] }

RECURSIVE SeqsUpTo(_, _)
SeqsUpTo(S, n) ==
    IF n = 0 THEN {<<>>}
    ELSE LET shorter == SeqsUpTo(S, n - 1)
         IN  shorter \cup {Append(q, x) : q \in shorter, x \in S}

CsvFiles ==
    { [exists |-> FALSE, fieldnames |-> {}, rows |-> <<>>],
      [exists |-> TRUE, fieldnames |-> RequiredColumns \ {"winery"},
       rows |-> << [c \in RequiredColumns \ {"winery"} |-> BaseRow[c]] >>],
      [exists |-> TRUE, fieldnames |-> RequiredColumns,
       rows |-> << [c \in RequiredColumns |-> BaseRow[c]] >>] }
    \cup { [exists |-> TRUE, fieldnames |-> RequiredColumns \cup OptionalColumns, rows |-> r] :
             r \in SeqsUpTo(Rows, MaxRows) }

\* a product as an earlier import or the admin left it
StoredProduct(title, winery, slug, image_url) ==
    [title |-> title, description |-> <<"d">>, price |-> [coef |-> 150, places |-> DecimalPlaces],
     stock |-> DefaultStock, country_of_origin |-> <<"A">>, province |-> <<"B">>,
     winery |-> winery, variety |-> <<"x">>, image_url |-> image_url,
     ratings |-> DefaultRatings, slug |-> slug]

StartTables ==
    { <<>>,
      << StoredProduct(<<"a">>, <<"b">>, <<"a">>, <<>>) >>,
      << StoredProduct(<<"a">>, <<"w">>, <<"a">>, None) >>,
      << StoredProduct(<<"a">>, <<"w">>, <<"a">>, <<>>),
         StoredProduct(<<"a">>, <<"b">>, <<"a", "-", "2">>, <<>>) >> }

(***************************************************************************)
(* import_products run on its own, re-run on the same CSV.                 *)
(***************************************************************************)
Init ==
    /\ products \in StartTables
    /\ user_ratings = {} /\ saved = <<>> /\ saves = 0 /\ ever_rated = {}
    /\ csv_file \in CsvFiles
    /\ update_existing \in BOOLEAN
    /\ pc = "start"
    /\ i = 0
    /\ created = 0 /\ updated = 0 /\ skipped = 0 /\ errors = 0
    /\ out = <<>>
    /\ summary = <<>>
    /\ run = 1
    /\ start_products = products
    /\ importers = <<>>
    /\ savers = <<>>

\* Lines 28-50: the file is opened and its header checked; CommandError ends the run
Open ==
    /\ pc = "start"
    /\ pc' = IF csv_file.exists /\ RequiredColumns \subseteq csv_file.fieldnames
             THEN "rows" ELSE "failed"
    /\ created' = 0 /\ updated' = 0 /\ skipped' = 0 /\ errors' = 0
    /\ UNCHANGED <<products, rating_state, csv_file, update_existing, i, out, summary, run,
                   start_products, importers, savers>>

\* Lines 53-127: one pass of the loop, the row's transaction included
ProcessRow ==
    /\ pc = "rows"
    /\ i < Len(csv_file.rows)
    /\ LET row == csv_file.rows[i + 1]
           lk == Lookup(products, row)
           res == Write(products, lk, update_existing)
           warned == IF lk.missing THEN <<>> ELSE Warnings(row)
       IN  /\ products' = res.db
           /\ created' = created + (IF Counts(res.kind, "created") THEN 1 ELSE 0)
           /\ updated' = updated + (IF Counts(res.kind, "updated") THEN 1 ELSE 0)
           /\ skipped' = skipped + (IF Counts(res.kind, "skipped") THEN 1 ELSE 0)
           /\ errors' = errors + (IF Counts(res.kind, "error") THEN 1 ELSE 0)
           /\ out' = out \o [k \in 1..Len(warned) |-> <<i + 1, warned[k]>>]
                         \o << <<i + 1, res.kind>> >>
    /\ i' = i + 1
    /\ UNCHANGED <<rating_state, csv_file, update_existing, pc, summary, run, start_products,
                   importers, savers>>

\* Lines 129-134: the file is closed and the summary written
Summary ==
    /\ pc = "rows"
    /\ i = Len(csv_file.rows)
    /\ summary' = <<created, updated, skipped, errors>>
    /\ pc' = "done"
    /\ UNCHANGED <<products, rating_state, csv_file, update_existing, i, created, updated,
                   skipped, errors, out, run, start_products, importers, savers>>

\* The command is invoked again with the same arguments
Rerun ==
    /\ pc = "done"
    /\ run < MaxRuns
    /\ run' = run + 1
    /\ pc' = "start"
    /\ i' = 0
    /\ created' = 0 /\ updated' = 0 /\ skipped' = 0 /\ errors' = 0
    /\ out' = <<>>
    /\ summary' = <<>>
    /\ start_products' = products
    /\ UNCHANGED <<products, rating_state, csv_file, update_existing, importers, savers>>

Next == Open \/ ProcessRow \/ Summary \/ Rerun

Spec == Init /\ [][Next]_vars

(***************************************************************************)
(* Properties of the importer.                                             *)
(***************************************************************************)
\* the step is one pass of the importer's loop, over `TheRow`
RowStep == pc = "rows" /\ i' = i + 1

TheRow == csv_file.rows[i + 1]

\* text that is empty once trimmed
IsBlank(s) == \A k \in 1..Len(s) : s[k] \in Whitespace

CountersSum == created + updated + skipped + errors

\* the slugs of a table are pairwise different
SlugsUnique(db) == \A j, k \in 1..Len(db) : db[j].slug = db[k].slug => j = k

\* C1: once a run with --update has finished, a re-run with --update on the same
\* CSV counts no update and leaves the Product table as the first run left it.
C1_RerunUpdatesNothing ==
    (run >= 2 /\ update_existing) => (updated = 0 /\ products = start_products)

\* C3: a row whose processing raises is caught: errors grows by one, the table is
\* as the earlier rows left it, the loop goes on to the next row, and a run that
\* ends has read every row.
C3_FailureIsolated ==
    /\ [][(RowStep /\ out'[Len(out')] = <<i + 1, "error">>)
            => /\ errors' = errors + 1
               /\ created' = created /\ updated' = updated /\ skipped' = skipped
               /\ products' = products
               /\ pc' = "rows"]_vars
    /\ [](pc = "done" => i = Len(csv_file.rows))

\* C3's case: the first row created a product, the second raised, the product is still there
C3_Witness ==
    /\ pc = "done" /\ i = 2
    /\ out[Len(out)] = <<2, "error">>
    /\ created = 1 /\ errors = 1
    /\ Len(products) = Len(start_products) + 1

\* C5: without --update, a CSV of two rows with the same (title, winery), which no
\* stored product has, ends with created=1 updated=0 skipped=1 errors=0 and the
\* product stored as the first row gives it.
C5_TwoRowsOneCreate ==
    LET rows == csv_file.rows
        first == Lookup(start_products, rows[1])
        second == Lookup(start_products, rows[2])
    IN  (/\ run = 1 /\ pc = "done" /\ ~update_existing
         /\ Len(rows) = 2
         /\ ~first.missing
         /\ first.title = second.title /\ first.defaults.winery = second.defaults.winery
         /\ first.id = 0
         /\ ("stock" \in DOMAIN first.defaults => first.defaults.stock >= 0))
        => /\ summary = <<1, 0, 1, 0>>
           /\ \E k \in 1..Len(products) :
                /\ products[k].title = first.title
                /\ \A f \in DOMAIN first.defaults :
                      products[k][f] = ToColumn(f, first.defaults[f])

\* C6: a row whose title or winery is empty once trimmed is counted as skipped,
\* not as an error, and the Product table is left as it was, with or without --update.
C6_BlankKeySkipped ==
    [][(RowStep /\ (IsBlank(Cell(TheRow, "title")) \/ IsBlank(Cell(TheRow, "winery"))))
         => /\ skipped' = skipped + 1
            /\ errors' = errors /\ created' = created /\ updated' = updated
            /\ products' = products]_vars

\* C6's case: a row without a title was read, by a run with --update, over a table that holds products
C6_Witness ==
    /\ i >= 1
    /\ IsBlank(Cell(csv_file.rows[i], "title"))
    /\ out # <<>> /\ out[Len(out)] = <<i, "missing">>
    /\ update_existing
    /\ products # <<>>

\* C7: a row with a title and a winery that no stored product has both of creates
\* a product with the row's fields and is counted as created, whatever else is
\* stored, and the slugs stay unique.
C7_NewKeyCreates ==
    [][(/\ RowStep
        /\ ~IsBlank(Cell(TheRow, "title")) /\ ~IsBlank(Cell(TheRow, "winery"))
        /\ Lookup(products, TheRow).id = 0
        /\ ("stock" \in DOMAIN Defaults(TheRow) => Defaults(TheRow).stock >= 0))
         => /\ created' = created + 1
            /\ Len(products') = Len(products) + 1
            /\ products'[Len(products')].title = Strip(Cell(TheRow, "title"))
            /\ products'[Len(products')].winery = Strip(Cell(TheRow, "winery"))
            /\ SlugsUnique(products')]_vars

\* C10: every row adds one to exactly one of the four counters, so that their sum
\* is the number of rows read, after each row and in the summary; a row counted
\* as created or updated changed the Product table, and a row counted as skipped
\* or as an error did not.
C10_CounterPartition ==
    /\ [][RowStep =>
            /\ CountersSum' = CountersSum + 1
            /\ created' >= created /\ updated' >= updated
            /\ skipped' >= skipped /\ errors' >= errors
            /\ (created' > created \/ updated' > updated) => products' # products
            /\ (skipped' > skipped \/ errors' > errors) => products' = products]_vars
    /\ [](pc \in {"rows", "done"} => CountersSum = i)
    /\ [](pc = "done" => summary = <<created, updated, skipped, errors>>)

(***************************************************************************)
(* Rating.save and Product.update_average_rating.                          *)
(***************************************************************************)
Users == 1..NumUsers

\* stars = PositiveIntegerField(choices=[(i, i) for i in range(1,6)])
Stars == 1..5

\* the stars the calls of the model give
StarsGiven == {s \in Stars : s >= 3}

\* product.user_ratings: the ratings whose product is p
RatingsOf(tbl, p) == {r \in tbl : r.product = p}

RECURSIVE SumStars(_)
SumStars(S) ==
    IF S = {} THEN 0
    ELSE LET r == CHOOSE x \in S : TRUE IN r.stars + SumStars(S \ {r})

RECURSIVE GCD(_, _)
GCD(a, b) == IF b = 0 THEN a ELSE GCD(b, a % b)

\* the float sum / n, as a reduced fraction
Float(sum, n) == <<sum \div GCD(sum, n), n \div GCD(sum, n)>>

\* Avg with the integer quotient for the mean
AvgWhole(tbl, p) ==
    IF RatingsOf(tbl, p) = {} THEN None
    ELSE <<SumStars(RatingsOf(tbl, p)) \div Cardinality(RatingsOf(tbl, p)), 1>>

\* self.user_ratings.aggregate(avg=Avg("stars"))["avg"]: None when there is no rating
Avg(tbl, p) ==
    IF RatingsOf(tbl, p) = {} THEN None
    ELSE Float(SumStars(RatingsOf(tbl, p)), Cardinality(RatingsOf(tbl, p)))

\* avg_rating if avg_rating is not None else 0.0
AverageRating(tbl, p) == IF Avg(tbl, p) = None THEN DefaultRatings ELSE Avg(tbl, p)

\* self.save(update_fields=["ratings"]): the one column of row p is written
SaveRatings(db, p, avg) == [db EXCEPT ![p].ratings = avg]

\* Product.update_average_rating, run without interruption
update_average_rating(db, tbl, p) == SaveRatings(db, p, AverageRating(tbl, p))

\* unique_together = ('user', 'product'): no other rating has the pair
PairFree(tbl, olds, self) ==
    \A r \in tbl \ olds : ~(r.user = self.user /\ r.product = self.product)

\* super(Rating, self).save(): the row is inserted, or written over the row in `olds`.
\* ok is FALSE when the database raises IntegrityError, and the table is then unchanged.
RatingPersist(tbl, olds, self) ==
    IF PairFree(tbl, olds, self)
    THEN [ok |-> TRUE, tbl |-> (tbl \ olds) \cup {self}]
    ELSE [ok |-> FALSE, tbl |-> tbl]

\* Rating.save, run without interruption: the row, then the product's average
RatingSave(db, tbl, olds, self) ==
    LET persisted == RatingPersist(tbl, olds, self)
    IN  IF persisted.ok
        THEN [ok |-> TRUE, tbl |-> persisted.tbl,
              db |-> update_average_rating(db, persisted.tbl, self.product)]
        ELSE [ok |-> FALSE, tbl |-> tbl, db |-> db]

\* the two products the ratings are about
RatedTable ==
    << StoredProduct(<<"a">>, <<"w">>, <<"a">>, <<>>),
       StoredProduct(<<"b">>, <<"w">>, <<"b">>, <<>>) >>

\* the command is not running
Idle ==
    /\ csv_file = [exists |-> FALSE, fieldnames |-> {}, rows |-> <<>>]
    /\ update_existing = FALSE
    /\ pc = "idle"
    /\ i = 0
    /\ created = 0 /\ updated = 0 /\ skipped = 0 /\ errors = 0
    /\ out = <<>>
    /\ summary = <<>>
    /\ run = 1
    /\ start_products = products

InitRatings ==
    /\ products = RatedTable
    /\ user_ratings = {} /\ saved = <<>> /\ saves = 0 /\ ever_rated = {}
    /\ Idle
    /\ importers = <<>>
    /\ savers = <<>>

\* the effect of one Rating.save call, of the instance `self` over the rows `olds`
Saving(olds, self) ==
    /\ saves < MaxSaves
    /\ saves' = saves + 1
    /\ LET res == RatingSave(products, user_ratings, olds, self)
       IN  /\ products' = res.db
           /\ user_ratings' = res.tbl
           /\ saved' = IF res.ok THEN <<self>> ELSE saved
           /\ ever_rated' = IF res.ok THEN ever_rated \cup {self.product} ELSE ever_rated
    /\ UNCHANGED <<command, importers, savers>>

\* Rating(user=u, product=p, stars=s).save()
SaveNew ==
    \E u \in Users, p \in 1..Len(products), s \in StarsGiven :
        Saving({}, [user |-> u, product |-> p, stars |-> s])

\* a stored rating given other stars or another product, and saved
SaveStored ==
    \E old \in user_ratings, p \in 1..Len(products), s \in StarsGiven :
        Saving({old}, [user |-> old.user, product |-> p, stars |-> s])

NextRatings == SaveNew \/ SaveStored

RatingSpec == InitRatings /\ [][NextRatings]_vars

\* C2: after a Rating.save, of a new rating or of a stored one, the rating's
\* product has as cached ratings the arithmetic mean of the stars of the ratings
\* that refer to it; a product no rating ever referred to has 0.0.
C2_AverageAfterSave ==
    /\ saved # <<>> =>
          LET mine == RatingsOf(user_ratings, saved[1].product)
              cached == products[saved[1].product].ratings
          IN  /\ mine # {}
              /\ cached[1] * Cardinality(mine) = SumStars(mine) * cached[2]
    /\ \A p \in 1..Len(products) : p \notin ever_rated => products[p].ratings = <<0, 1>>

\* C2's case: a rating of 3 stars was saved for the second product and saved again
\* for the first, ratings of 4 and 5 stars were saved for the first, and its cached
\* average is 4.0
C2_Witness ==
    /\ {r.stars : r \in RatingsOf(user_ratings, 1)} = {3, 4, 5}
    /\ Cardinality(RatingsOf(user_ratings, 1)) = 3
    /\ products[1].ratings = <<4, 1>>
    /\ ever_rated = {1, 2}
    /\ RatingsOf(user_ratings, 2) = {}

(***************************************************************************)
(* Concurrent callers.  Two importer runs, each at one row, and two        *)
(* Rating.save calls by different users, over one database.  No code of    *)
(* the repository takes a lock: a step is one statement on the database,   *)
(* and the steps of the callers interleave.  The importer's row reads      *)
(* (the lookup) and later writes (save or create) in its transaction;      *)
(* Rating.save runs three statements: the row, the aggregate, the          *)
(* product's column.                                                       *)
(***************************************************************************)
Importers == {1, 2}

Savers == {1, 2}

RaceRows ==
    { \* the stored product, described otherwise
      [BaseRow EXCEPT !.description = <<"x">>],
      \* a product not stored yet
      [BaseRow EXCEPT !.title = <<"b">>] }

InitRace ==
    /\ products = << StoredProduct(<<"a">>, <<"w">>, <<"a">>, <<>>) >>
    /\ user_ratings = {} /\ saved = <<>> /\ saves = 0 /\ ever_rated = {}
    /\ Idle
    /\ importers \in [Importers ->
          {[pc |-> "lookup", row |-> r, update |-> u, lk |-> <<>>, kind |-> ""] :
              r \in RaceRows, u \in BOOLEAN}]
    /\ savers \in [Savers ->
          {[pc |-> "persist", stars |-> s, avg |-> <<>>] : s \in StarsGiven}]

\* the Rating instance saver k saves: user k's rating of product 1
SelfOf(k) == [user |-> k, product |-> 1, stars |-> savers[k].stars]

\* Lines 55-97 of importer w's row: the transaction begins, the product is looked up
ImporterLookup(w) ==
    /\ importers[w].pc = "lookup"
    /\ importers' = [importers EXCEPT ![w].lk = Lookup(products, importers[w].row),
                                      ![w].pc = "write"]
    /\ UNCHANGED <<products, rating_state, command, savers>>

\* Lines 99-127 of importer w's row: the write, on the database as it now is, and the commit
ImporterWrite(w) ==
    /\ importers[w].pc = "write"
    /\ LET res == Write(products, importers[w].lk, importers[w].update)
       IN  /\ products' = res.db
           /\ importers' = [importers EXCEPT ![w].kind = res.kind, ![w].pc = "done"]
    /\ UNCHANGED <<rating_state, command, savers>>

\* Rating.save line 47 of saver k: super().save()
SaverPersist(k) ==
    /\ savers[k].pc = "persist"
    /\ LET persisted == RatingPersist(user_ratings, {}, SelfOf(k))
       IN  /\ user_ratings' = persisted.tbl
           /\ saved' = IF persisted.ok THEN <<SelfOf(k)>> ELSE saved
           /\ ever_rated' = IF persisted.ok THEN ever_rated \cup {1} ELSE ever_rated
           /\ savers' = [savers EXCEPT ![k].pc = IF persisted.ok THEN "aggregate" ELSE "raised"]
    /\ saves' = saves + 1
    /\ UNCHANGED <<products, command, importers>>

\* update_average_rating lines 27-28 of saver k: the aggregate query
SaverAggregate(k) ==
    /\ savers[k].pc = "aggregate"
    /\ savers' = [savers EXCEPT ![k].avg = AverageRating(user_ratings, 1), ![k].pc = "write"]
    /\ UNCHANGED <<products, rating_state, command, importers>>

\* update_average_rating line 29 of saver k: self.save(update_fields=["ratings"])
SaverWrite(k) ==
    /\ savers[k].pc = "write"
    /\ products' = SaveRatings(products, 1, savers[k].avg)
    /\ savers' = [savers EXCEPT ![k].pc = "done"]
    /\ UNCHANGED <<rating_state, command, importers>>

ImporterStep == \E w \in Importers : ImporterLookup(w) \/ ImporterWrite(w)

SaverStep == \E k \in Savers : SaverPersist(k) \/ SaverAggregate(k) \/ SaverWrite(k)

NextRace == ImporterStep \/ SaverStep

RaceSpec == InitRace /\ [][NextRace]_vars

\* the stored products with the title and the winery
WithKey(db, title, winery) ==
    {k \in 1..Len(db) : db[k].title = title /\ db[k].winery = winery}

\* C4: no step of an importer changes the cached ratings of a stored product, also
\* when a Rating.save for the product commits between the importer's lookup and its write.
C4_ImporterKeepsRatings ==
    [][(\E w \in Importers : importers'[w].pc # importers[w].pc) =>
          \A k \in 1..Len(products) : products'[k].ratings = products[k].ratings]_vars

\* C8: two importer runs whose rows have the same (title, winery), both of which
\* found no product at the lookup, both complete the create: two products with
\* the pair are stored.
C8_BothCreate ==
    (/\ \A w \in Importers : importers[w].pc = "done"
     /\ \A w \in Importers : ~importers[w].lk.missing /\ importers[w].lk.id = 0
     /\ importers[1].lk.title = importers[2].lk.title
     /\ importers[1].lk.defaults.winery = importers[2].lk.defaults.winery)
    => Cardinality(WithKey(products, importers[1].lk.title, importers[1].lk.defaults.winery)) = 2

\* C9: once two Rating.save calls on one product have both finished, however
\* their steps interleaved, the product's cached ratings is the arithmetic mean
\* of the stars of its ratings.
C9_CacheIsMean ==
    (\A k \in Savers : savers[k].pc = "done")
    => LET mine == RatingsOf(user_ratings, 1)
           cached == products[1].ratings
       IN  cached[1] * Cardinality(mine) = SumStars(mine) * cached[2]

=============================================================================
